---- MODULE Spec2Model ----
(***************************************************************************)
(* The slide-edit execution engine of pptagent/apis.py: CodeExecutor's     *)
(* execute_actions loop, paragraph addressing, the five registered editing *)
(* operations with their deferred closures, and the save boundary that     *)
(* drains the closure queues into the real paragraph tree.                 *)
(*                                                                         *)
(* A command line is kept as its parse: the facts the executor reads off   *)
(* its text (its prefix, whether it has the call shape, the name before    *)
(* the first parenthesis, the argument values, whether its arguments are   *)
(* literals).  Fields named uid, new_uid and the variables evalCount,      *)
(* slide0, fail_idx, last, drain_log are history annotations: no operation *)
(* reads them to decide anything.                                          *)
(***************************************************************************)
EXTENDS Integers, Sequences, FiniteSets, TLC

VARIABLES
    pc,               \* "idle" | "running" | "done" | "saved"
    api_calls,        \* the lines of the batch being executed
    line_idx,         \* loop index of execute_actions (0-based)
    found_code,       \* execute_actions' found_code
    func,             \* the local variable func; "<unbound>" until line 176 ran
    result,           \* what the last execute_actions call ended with
    slide,            \* the shadow slide (edit_slide): shapes, paragraphs, closures
    real,             \* the real paragraph tree behind each shape
    api_history, command_history, code_history,
    lines_left,       \* lines the session may still submit
    batches,          \* execute_actions calls started so far
    evalCount,        \* per line of the batch: times eval(line) was reached
    slide0,           \* the shadow slide when the batch started
    fail_idx,         \* index of the failing line of the batch, -1 if none
    last,             \* the last evaluated operation line and its outcome
    drain_log,        \* one entry per closure applied by the save boundary
    doc,              \* the doc argument of the execute_actions call
    sessions,         \* the executors of concurrently running sessions
    dedup,            \* a presentation given to prs_dedup, and what the call did
    deleted_ids       \* per shape id: the idx values del_paragraph has removed

vars == <<pc, api_calls, line_idx, found_code, func, result, slide, real,
          api_history, command_history, code_history, lines_left, batches,
          evalCount, slide0, fail_idx, last, drain_log, doc, sessions, dedup,
          deleted_ids>>

----------------------------------------------------------------------------
(* Bounds *)

MaxLines == 3
MaxBatches == 2
MaxSessionLines == 3
MaxPid == 2
MaxConcurrentLines == 2
MaxSlides == 4

----------------------------------------------------------------------------
(* Sequence helpers *)

Min(a, b) == IF a <= b THEN a ELSE b

SetMax(S) == CHOOSE m \in S : \A x \in S : x <= m

\* seq with the element at position p removed
RemoveAt(seq, p) == [i \in 1..(Len(seq) - 1) |-> IF i < p THEN seq[i] ELSE seq[i + 1]]

\* the least of a set of positions, 0 when it is empty: the first match of a
\* for loop over a list
FirstPos(S) == IF S = {} THEN 0 ELSE CHOOSE i \in S : \A j \in S : i <= j

\* Python's seq[:n] for a list of length Len(seq), n possibly negative
PySliceTo(seq, n) ==
    LET stop == IF n < 0 THEN (IF Len(seq) + n < 0 THEN 0 ELSE Len(seq) + n)
                ELSE Min(n, Len(seq))
    IN SubSeq(seq, 1, stop)

\* Python's seq[n:] for n >= 0
PySliceFrom(seq, n) == SubSeq(seq, Min(n, Len(seq)) + 1, Len(seq))

----------------------------------------------------------------------------
(* Command lines *)

\* One line of the batch.  head: what the text starts with; call: whether
\* function_regex matches it; func: the text before the first "("; div, pid,
\* arg: the values its arguments denote; argform: "literal" when every
\* argument is a literal, "name" when an argument is an identifier that is
\* not a builtin, "builtin" when an argument is a call of a builtin
\* (del_paragraph(0, abs(0))), "trailing" when the text goes on after the
\* call with an operator the call's value does not support
\* (del_paragraph(0, 0) + 1).
Line(head, call, f, div, pid, arg, argform) ==
    [head |-> head, call |-> call, func |-> f, div |-> div, pid |-> pid,
     arg |-> arg, argform |-> argform]

Prose == Line("text", FALSE, "", 0, 0, "", "literal")
Comment == Line("#", FALSE, "", 0, 0, "", "literal")
Definition == Line("def", TRUE, "def foo", 0, 0, "", "literal")
UnknownCall == Line("text", TRUE, "move_shape", 0, 0, "", "literal")
NameArgCall == Line("text", TRUE, "del_paragraph", 0, 0, "", "name")
BuiltinArgCall == Line("text", TRUE, "del_paragraph", 0, 0, "", "builtin")
TrailingCall == Line("text", TRUE, "del_paragraph", 0, 0, "", "trailing")

Pids == (-1)..MaxPid
NewTexts == {"X"}
ImagePaths == {"img.png", "missing.png", "table_0a1b.png", "table_ffff.png"}

ParagraphCalls ==
    {Line("text", TRUE, "del_paragraph", 0, p, "", "literal") : p \in Pids}
    \cup {Line("text", TRUE, "clone_paragraph", 0, p, "", "literal") : p \in Pids}
    \cup {Line("text", TRUE, "replace_paragraph", 0, p, t, "literal") :
            p \in Pids, t \in NewTexts}
    \cup {Line("text", TRUE, "replace_paragraph", 1, 0, "X", "literal")}

ImageCalls ==
    {Line("text", TRUE, "del_image", d, 0, "", "literal") : d \in {0, 1}}
    \cup {Line("text", TRUE, "replace_image", 1, 0, path, "literal") :
            path \in ImagePaths}

Alphabet ==
    {Prose, Comment, Definition, UnknownCall, NameArgCall, BuiltinArgCall,
     TrailingCall}
    \cup ParagraphCalls \cup ImageCalls

\* the files os.path.exists finds, and the rendered-table images the
\* document holds a Table for
ExistingPaths == {"img.png", "table_0a1b.png", "table_ffff.png"}
DocTables == {"table_0a1b.png"}

\* the values of the doc argument: a Document, or None
Documents == {"Document", "None"}

\* TABLE_REGEX.match(image_path)
TableRegexMatch(path) == path \in {"table_0a1b.png", "table_ffff.png"}

\* line.startswith("def"), line.startswith("#"), function_regex.match(line),
\* line.split("(")[0]
StartsWithDef(line) == line.head = "def"
StartsWithHash(line) == line.head = "#"
FunctionRegexMatch(line) == line.call
FuncName(line) == line.func

\* API_TYPES.all_funcs(): the names of the registered operations
RegisteredFunctions ==
    {"replace_image", "del_image", "clone_paragraph", "replace_paragraph",
     "del_paragraph"}

----------------------------------------------------------------------------
(* The slide: shapes, paragraphs, closures *)

Para(idx, real_idx, text, uid) ==
    [idx |-> idx, real_idx |-> real_idx, text |-> text, uid |-> uid]

Closure(fn, paragraph_id, text, uid, new_uid) ==
    [fn |-> fn, paragraph_id |-> paragraph_id, text |-> text, uid |-> uid,
     new_uid |-> new_uid]

ClosureTypes == {"DELETE", "REPLACE", "CLONE", "MERGE"}
EmptyClosures == [t \in ClosureTypes |-> <<>>]

\* shape._closures[type].append(closure)
Enqueue(shape, type, closure) ==
    [shape EXCEPT !.closures[type] = Append(@, closure)]

\* the position in slide.shapes of the first shape with this id, 0 when
\* element_index raises
element_index(s, element_id) ==
    FirstPos({i \in 1..Len(s.shapes) : s.shapes[i].shape_idx = element_id})

ValidPositions(shape) == {i \in 1..Len(shape.paragraphs) : shape.paragraphs[i].idx # -1}
ValidIds(shape) == {shape.paragraphs[i].idx : i \in ValidPositions(shape)}

Raise(msg) == [exc |-> "SlideEditError", msg |-> msg, pos |-> 0, corrected |-> FALSE]
Resolved(pos, corrected) == [exc |-> "none", msg |-> "", pos |-> pos, corrected |-> corrected]

\* validate_paragraph_operation without the auto-correction of lines 405-407
validate_NoAutoCorrect(shape, paragraph_id) ==
    IF ~shape.is_textframe THEN Raise("no text frame")
    ELSE IF ValidPositions(shape) = {} THEN Raise("no valid paragraphs")
    ELSE
      LET found == FirstPos({i \in 1..Len(shape.paragraphs) : shape.paragraphs[i].idx = paragraph_id})
      IN IF found = 0 THEN Raise("cannot find paragraph")
         ELSE IF shape.paragraphs[found].idx = -1 THEN Raise("invalid paragraph")
         ELSE Resolved(found, FALSE)

\* validate_paragraph_operation correcting every id it does not find,
\* not only those at or above the maximum
validate_CorrectsAny(shape, paragraph_id) ==
    IF ~shape.is_textframe THEN Raise("no text frame")
    ELSE IF ValidPositions(shape) = {} THEN Raise("no valid paragraphs")
    ELSE
      LET found == FirstPos({i \in 1..Len(shape.paragraphs) : shape.paragraphs[i].idx = paragraph_id})
          maxid == SetMax(ValidIds(shape))
          clamp == FirstPos({i \in ValidPositions(shape) : shape.paragraphs[i].idx = maxid})
          target == IF found # 0 THEN found ELSE clamp
      IN IF shape.paragraphs[target].idx = -1 THEN Raise("invalid paragraph")
         ELSE Resolved(target, found = 0)

\* validate_paragraph_operation without the test of lines 415-418
validate_NoSentinelTest(shape, paragraph_id) ==
    IF ~shape.is_textframe THEN Raise("no text frame")
    ELSE IF ValidPositions(shape) = {} THEN Raise("no valid paragraphs")
    ELSE
      LET found == FirstPos({i \in 1..Len(shape.paragraphs) : shape.paragraphs[i].idx = paragraph_id})
          maxid == SetMax(ValidIds(shape))
          clamp == FirstPos({i \in ValidPositions(shape) : shape.paragraphs[i].idx = maxid})
          target == IF found # 0 THEN found
                    ELSE IF paragraph_id >= maxid THEN clamp ELSE 0
      IN IF target = 0 THEN Raise("cannot find paragraph")
         ELSE Resolved(target, found = 0)

validate_paragraph_operation(shape, paragraph_id) ==
    IF ~shape.is_textframe THEN Raise("no text frame")
    ELSE IF ValidPositions(shape) = {} THEN Raise("no valid paragraphs")
    ELSE
      LET found == FirstPos({i \in 1..Len(shape.paragraphs) : shape.paragraphs[i].idx = paragraph_id})
          maxid == SetMax(ValidIds(shape))
          clamp == FirstPos({i \in ValidPositions(shape) : shape.paragraphs[i].idx = maxid})
          target == IF found # 0 THEN found
                    ELSE IF paragraph_id >= maxid THEN clamp ELSE 0
      IN IF target = 0 THEN Raise("cannot find paragraph")
         ELSE IF shape.paragraphs[target].idx = -1 THEN Raise("invalid paragraph")
         ELSE Resolved(target, found = 0)

----------------------------------------------------------------------------
(* The registered editing operations.  Each gives the slide after the call, *)
(* the exception it raised ("none" when it returned), and the uid of the    *)
(* paragraph its paragraph id was resolved to.                              *)

Failed(s, exc, msg) ==
    [slide |-> s, exc |-> exc, msg |-> msg, target |-> -1, corrected |-> FALSE]
Done(s, target, corrected) ==
    [slide |-> s, exc |-> "none", msg |-> "", target |-> target, corrected |-> corrected]

\* the uid of the paragraph the next clone_paragraph on this shape creates
FreshUid(shape) == 10 + Len(shape.closures["CLONE"])

del_paragraph(s, div_id, paragraph_id) ==
    LET pos == element_index(s, div_id) IN
    IF pos = 0 THEN Failed(s, "SlideEditError", "cannot find element")
    ELSE
      LET shape == s.shapes[pos]
          v == validate_paragraph_operation(shape, paragraph_id)
      IN IF v.exc # "none" THEN Failed(s, v.exc, v.msg)
         ELSE
           LET t == shape.paragraphs[v.pos]
               removed == [shape EXCEPT !.paragraphs = RemoveAt(@, v.pos)]
               queued == Enqueue(removed, "DELETE",
                                 Closure("del_para", t.real_idx, "", t.uid, -1))
           IN Done([s EXCEPT !.shapes[pos] = queued], t.uid, v.corrected)

\* replace_paragraph leaving the new text to its closure: the shadow
\* paragraph keeps its text until the drain
replace_paragraph_QueueOnly(s, div_id, paragraph_id, text) ==
    LET pos == element_index(s, div_id) IN
    IF pos = 0 THEN Failed(s, "SlideEditError", "cannot find element")
    ELSE
      LET shape == s.shapes[pos]
          v == validate_paragraph_operation(shape, paragraph_id)
      IN IF v.exc # "none" THEN Failed(s, v.exc, v.msg)
         ELSE
           LET t == shape.paragraphs[v.pos]
               queued == Enqueue(shape, "REPLACE",
                                 Closure("replace_para", t.real_idx, text, t.uid, -1))
           IN Done([s EXCEPT !.shapes[pos] = queued], t.uid, v.corrected)

replace_paragraph(s, div_id, paragraph_id, text) ==
    LET pos == element_index(s, div_id) IN
    IF pos = 0 THEN Failed(s, "SlideEditError", "cannot find element")
    ELSE
      LET shape == s.shapes[pos]
          v == validate_paragraph_operation(shape, paragraph_id)
      IN IF v.exc # "none" THEN Failed(s, v.exc, v.msg)
         ELSE
           LET t == shape.paragraphs[v.pos]
               written == [shape EXCEPT !.paragraphs[v.pos].text = text]
               queued == Enqueue(written, "REPLACE",
                                 Closure("replace_para", t.real_idx, text, t.uid, -1))
           IN Done([s EXCEPT !.shapes[pos] = queued], t.uid, v.corrected)

\* clone_paragraph giving the clone the number of valid paragraphs as its
\* idx in place of max_idx + 1
clone_paragraph_CountIdx(s, div_id, paragraph_id) ==
    LET pos == element_index(s, div_id) IN
    IF pos = 0 THEN Failed(s, "SlideEditError", "cannot find element")
    ELSE
      LET shape == s.shapes[pos]
          v == validate_paragraph_operation(shape, paragraph_id)
      IN IF v.exc # "none" THEN Failed(s, v.exc, v.msg)
         ELSE
           LET t == shape.paragraphs[v.pos]
               cloned_para == Para(Cardinality(ValidPositions(shape)),
                                   Len(shape.paragraphs), t.text, FreshUid(shape))
               appended == [shape EXCEPT !.paragraphs = Append(@, cloned_para)]
               queued == Enqueue(appended, "CLONE",
                                 Closure("clone_para", t.real_idx, "", t.uid,
                                         FreshUid(shape)))
           IN Done([s EXCEPT !.shapes[pos] = queued], t.uid, v.corrected)

clone_paragraph(s, div_id, paragraph_id) ==
    LET pos == element_index(s, div_id) IN
    IF pos = 0 THEN Failed(s, "SlideEditError", "cannot find element")
    ELSE
      LET shape == s.shapes[pos]
          v == validate_paragraph_operation(shape, paragraph_id)
      IN IF v.exc # "none" THEN Failed(s, v.exc, v.msg)
         ELSE
           LET t == shape.paragraphs[v.pos]
               max_idx == SetMax(ValidIds(shape))
               cloned_para == Para(max_idx + 1, Len(shape.paragraphs), t.text,
                                   FreshUid(shape))
               appended == [shape EXCEPT !.paragraphs = Append(@, cloned_para)]
               queued == Enqueue(appended, "CLONE",
                                 Closure("clone_para", t.real_idx, "", t.uid,
                                         FreshUid(shape)))
           IN Done([s EXCEPT !.shapes[pos] = queued], t.uid, v.corrected)

\* del_image without the removal of line 459
del_image_KeepsShape(s, figure_id) ==
    LET pos == element_index(s, figure_id) IN
    IF pos = 0 THEN Failed(s, "SlideEditError", "cannot find element")
    ELSE IF ~s.shapes[pos].is_picture THEN Failed(s, "SlideEditError", "not a Picture")
    ELSE Done(s, -1, FALSE)

del_image(s, figure_id) ==
    LET pos == element_index(s, figure_id) IN
    IF pos = 0 THEN Failed(s, "SlideEditError", "cannot find element")
    ELSE IF ~s.shapes[pos].is_picture THEN Failed(s, "SlideEditError", "not a Picture")
    ELSE Done([s EXCEPT !.shapes = RemoveAt(@, pos)], -1, FALSE)

\* doc.get_table raises AttributeError when doc is None and ValueError when
\* the document has no Table for the path; otherwise the shape becomes a
\* table and two closures are queued
replace_image_with_table(shape, d, image_path) ==
    IF d = "None" THEN [exc |-> "AttributeError", shape |-> shape]
    ELSE IF image_path \notin DocTables
    THEN [exc |-> "ValueError", shape |-> shape]
    ELSE [exc |-> "none",
          shape |-> Enqueue(Enqueue([shape EXCEPT !.is_table = TRUE], "REPLACE",
                                    Closure("add_table", -1, image_path, -1, -1)),
                            "MERGE", Closure("merge_cells", -1, image_path, -1, -1))]

\* PIL.Image.open(image_path).size: the pixel size <<width, height>> of
\* the image files that exist
img_size(image_path) ==
    CASE image_path = "img.png" -> <<20, 10>>
      [] image_path = "table_0a1b.png" -> <<10, 30>>
      [] OTHER -> <<7, 3>>

\* Lengths are whole numbers of EMU, as python-pptx keeps them; a shape's
\* left, top, width and height read in points and are set from Pt(points).
\* Pt(x) is int(x * 12700): for x * 12700 = num / den the quotient without
\* its fraction (every length here is non-negative).
Pt(num, den) == num \div den

\* r of line 518 with max in place of min
FitRatio_Larger(bounds, size) ==
    IF bounds.width * size[2] >= bounds.height * size[1]
    THEN [num |-> bounds.width, den |-> size[1]]
    ELSE [num |-> bounds.height, den |-> size[2]]

\* r = min(shape.width / img_size[0], shape.height / img_size[1]), kept as
\* the fraction num / den of EMU per pixel
FitRatio(bounds, size) ==
    IF bounds.width * size[2] <= bounds.height * size[1]
    THEN [num |-> bounds.width, den |-> size[1]]
    ELSE [num |-> bounds.height, den |-> size[2]]

\* lines 519-523: new_width and new_height are the pixel size times r; top
\* moves down by half of what the height loses, then width and height are
\* set; left is not assigned
Refit(bounds, size) ==
    LET r == FitRatio(bounds, size) IN
    [left |-> bounds.left,
     top |-> Pt(2 * bounds.top * r.den + bounds.height * r.den - size[2] * r.num,
                2 * r.den),
     width |-> Pt(size[1] * r.num, r.den),
     height |-> Pt(size[2] * r.num, r.den)]

\* lines 517-524: the plain swap of a Picture's image
PlainSwap(shape, image_path) ==
    [shape EXCEPT !.bounds = Refit(@, img_size(image_path)),
                  !.img_path = image_path]

\* replace_image without the except clause of lines 512-515: what
\* replace_image_with_table raises leaves the operation
replace_image_NoFallback(s, d, img_id, image_path) ==
    IF image_path \notin ExistingPaths
    THEN Failed(s, "SlideEditError", "image does not exist")
    ELSE
      LET pos == element_index(s, img_id) IN
      IF pos = 0 THEN Failed(s, "SlideEditError", "cannot find element")
      ELSE IF ~s.shapes[pos].is_picture
      THEN Failed(s, "SlideEditError", "not a Picture")
      ELSE
        LET shape == s.shapes[pos]
            tab == replace_image_with_table(shape, d, image_path)
        IN IF TableRegexMatch(image_path)
           THEN IF tab.exc = "none"
                THEN Done([s EXCEPT !.shapes[pos] = tab.shape], -1, FALSE)
                ELSE Failed(s, tab.exc, "table not found")
           ELSE Done([s EXCEPT !.shapes[pos] = PlainSwap(shape, image_path)], -1, FALSE)

replace_image(s, d, img_id, image_path) ==
    IF image_path \notin ExistingPaths
    THEN Failed(s, "SlideEditError", "image does not exist")
    ELSE
      LET pos == element_index(s, img_id) IN
      IF pos = 0 THEN Failed(s, "SlideEditError", "cannot find element")
      ELSE IF ~s.shapes[pos].is_picture
      THEN Failed(s, "SlideEditError", "not a Picture")
      ELSE
        LET shape == s.shapes[pos]
            tab == replace_image_with_table(shape, d, image_path)
        IN IF TableRegexMatch(image_path) /\ tab.exc = "none"
           THEN Done([s EXCEPT !.shapes[pos] = tab.shape], -1, FALSE)
           ELSE Done([s EXCEPT !.shapes[pos] = PlainSwap(shape, image_path)], -1, FALSE)

\* partial_func(*args): the registered operation bound to the slide (and,
\* for replace_image, to the doc of the call), called with the values of the
\* line's arguments
CallOperation(s, line) ==
    CASE line.func = "del_paragraph" -> del_paragraph(s, line.div, line.pid)
      [] line.func = "replace_paragraph" ->
            replace_paragraph(s, line.div, line.pid, line.arg)
      [] line.func = "clone_paragraph" -> clone_paragraph(s, line.div, line.pid)
      [] line.func = "del_image" -> del_image(s, line.div)
      [] line.func = "replace_image" -> replace_image(s, doc, line.div, line.arg)

\* eval(line, {}, {func: partial_func}).  The line is evaluated as one
\* expression.  An argument that is an unknown name raises NameError before
\* the operation is called.  eval adds __builtins__ to the empty globals, so
\* a builtin in an argument is resolved and called and the operation gets
\* its value.  When the text goes on after the call, the operation has run
\* and returned None before the rest raises TypeError.
EvalLine(s, line) ==
    IF line.argform = "name" THEN Failed(s, "NameError", "name is not defined")
    ELSE LET r == CallOperation(s, line)
         IN IF line.argform = "trailing" /\ r.exc = "none"
            THEN [r EXCEPT !.exc = "TypeError", !.msg = "unsupported operand"]
            ELSE r

----------------------------------------------------------------------------
(* Closure bodies and the save boundary *)

RealPara(uid, text) == [uid |-> uid, text |-> text]

\* replace_para / clone_para / del_para on the real paragraph list of a
\* shape; paragraphs[paragraph_id] raises IndexError past the end, and the
\* list is then left as it was.  hit is the uid of the paragraph acted on.
replace_para(paragraph_id, new_text, paras) ==
    IF paragraph_id >= Len(paras) THEN [paras |-> paras, hit |-> -1]
    ELSE [paras |-> [paras EXCEPT ![paragraph_id + 1].text = new_text],
          hit |-> paras[paragraph_id + 1].uid]

clone_para(paragraph_id, new_uid, paras) ==
    IF paragraph_id >= Len(paras) THEN [paras |-> paras, hit |-> -1]
    ELSE [paras |-> Append(paras, RealPara(new_uid, paras[paragraph_id + 1].text)),
          hit |-> paras[paragraph_id + 1].uid]

del_para(paragraph_id, paras) ==
    IF paragraph_id >= Len(paras) THEN [paras |-> paras, hit |-> -1]
    ELSE [paras |-> RemoveAt(paras, paragraph_id + 1),
          hit |-> paras[paragraph_id + 1].uid]

\* one closure applied to the real shape r = [paragraphs, table, merged]
ApplyClosure(c, r) ==
    CASE c.fn = "replace_para" ->
           LET o == replace_para(c.paragraph_id, c.text, r.paragraphs)
           IN [real |-> [r EXCEPT !.paragraphs = o.paras], hit |-> o.hit]
      [] c.fn = "clone_para" ->
           LET o == clone_para(c.paragraph_id, c.new_uid, r.paragraphs)
           IN [real |-> [r EXCEPT !.paragraphs = o.paras], hit |-> o.hit]
      [] c.fn = "del_para" ->
           LET o == del_para(c.paragraph_id, r.paragraphs)
           IN [real |-> [r EXCEPT !.paragraphs = o.paras], hit |-> o.hit]
      [] c.fn = "add_table" -> [real |-> [r EXCEPT !.table = c.text], hit |-> -1]
      [] c.fn = "merge_cells" -> [real |-> [r EXCEPT !.merged = TRUE], hit |-> -1]

\* the queues of a shape in the order the save boundary drains them
DrainOrder(shape) ==
    shape.closures["REPLACE"] \o shape.closures["CLONE"]
    \o shape.closures["DELETE"] \o shape.closures["MERGE"]

LogEntry(shape_idx, c, hit) == [shape_idx |-> shape_idx, closure |-> c, hit |-> hit]

\* apply queue[i..] to r in order: the real shape and the log of applications
RECURSIVE DrainFrom(_, _, _, _)
DrainFrom(queue, i, r, shape_idx) ==
    IF i > Len(queue) THEN [real |-> r, log |-> <<>>]
    ELSE LET o == ApplyClosure(queue[i], r)
             rest == DrainFrom(queue, i + 1, o.real, shape_idx)
         IN [real |-> rest.real,
             log |-> <<LogEntry(shape_idx, queue[i], o.hit)>> \o rest.log]

DrainShape(shape, r) == DrainFrom(DrainOrder(shape), 1, r, shape.shape_idx)

\* every shape still in the slide is drained, in slide order
RECURSIVE DrainSlide(_, _, _)
DrainSlide(shapes, i, rl) ==
    IF i > Len(shapes) THEN [real |-> rl, log |-> <<>>]
    ELSE LET sh == shapes[i]
             o == DrainShape(sh, rl[sh.shape_idx])
             rest == DrainSlide(shapes, i + 1, [rl EXCEPT ![sh.shape_idx] = o.real])
         IN [real |-> rest.real, log |-> o.log \o rest.log]

----------------------------------------------------------------------------
(* The session: initial state *)

TextShape(paras) ==
    [shape_idx |-> 0, is_picture |-> FALSE, is_textframe |-> TRUE,
     paragraphs |-> paras, closures |-> EmptyClosures, img_path |-> "",
     is_table |-> FALSE,
     bounds |-> [left |-> 127000, top |-> 127000, width |-> 1270000,
                 height |-> 254000]]

PictureShape ==
    [shape_idx |-> 1, is_picture |-> TRUE, is_textframe |-> FALSE,
     paragraphs |-> <<>>, closures |-> EmptyClosures, img_path |-> "old.png",
     is_table |-> FALSE,
     bounds |-> [left |-> 127000, top |-> 508000, width |-> 508000,
                 height |-> 381000]]

\* The paragraph lists a loaded text shape starts with: real_idx is the
\* physical position, idx the rank among the paragraphs that carry text,
\* -1 for an empty one.
Layouts ==
    { <<Para(0, 0, "a", 0), Para(-1, 1, "", 1), Para(1, 2, "b", 2)>>,
      <<Para(0, 0, "a", 0), Para(1, 1, "b", 1), Para(2, 2, "c", 2)>> }

SlideOf(paras) == [slide_idx |-> 1, shapes |-> <<TextShape(paras), PictureShape>>]

RealOf(paras) ==
    [i \in {0, 1} |->
        [paragraphs |-> IF i = 0
                        THEN [k \in 1..Len(paras) |-> RealPara(paras[k].uid, paras[k].text)]
                        ELSE <<>>,
         table |-> "", merged |-> FALSE]]

\* no idx has been removed from any shape
NoneDeleted == [id \in {0, 1} |-> {}]

\* the idx values of the paragraphs of shape `before` that `after` no
\* longer holds
RemovedIds(before, after) ==
    {before.paragraphs[i].idx : i \in
        {i \in 1..Len(before.paragraphs) :
            \A j \in 1..Len(after.paragraphs) :
                after.paragraphs[j].uid # before.paragraphs[i].uid}}

\* the record of removed idx values after an evaluation took the shapes
\* from before to after
WithRemoved(removed, before, after) ==
    [id \in DOMAIN removed |->
        LET pb == FirstPos({i \in 1..Len(before) : before[i].shape_idx = id})
            pa == FirstPos({i \in 1..Len(after) : after[i].shape_idx = id})
        IN IF pb = 0 \/ pa = 0 THEN removed[id]
           ELSE removed[id] \cup RemovedIds(before[pb], after[pa])]

NoTrace == [exc |-> "none", msg |-> ""]
Trace(exc, msg) == [exc |-> exc, msg |-> msg]

\* kind: "None" (returned None), "pair" (returned (api_lines, trace_msg)),
\* "raised" (an exception left the call: trace); cause is the exception the
\* loop body raised
NoResult == [kind |-> "unset", api_lines |-> <<>>, trace |-> NoTrace, cause |-> NoTrace]
NoLast == [line |-> Prose, exc |-> "unset", target |-> -1, corrected |-> FALSE,
           before |-> <<>>, after |-> <<>>]

Init ==
    /\ pc = "idle"
    /\ api_calls = <<>>
    /\ line_idx = 0
    /\ found_code = FALSE
    /\ func = "<unbound>"
    /\ result = NoResult
    /\ \E paras \in Layouts :
          /\ slide = SlideOf(paras)
          /\ slide0 = SlideOf(paras)
          /\ real = RealOf(paras)
    /\ api_history = <<>>
    /\ command_history = <<>>
    /\ code_history = <<>>
    /\ lines_left = MaxSessionLines
    /\ batches = 0
    /\ evalCount = <<>>
    /\ fail_idx = -1
    /\ last = NoLast
    /\ drain_log = <<>>
    /\ doc = "None"
    /\ sessions = <<>>
    /\ dedup = <<>>
    /\ deleted_ids = NoneDeleted

----------------------------------------------------------------------------
(* execute_actions *)

\* the lines of "\n".join(seq): the empty string is one empty line
TextLine(l) == [mark |-> "", line |-> l]
ErrorLine(l) == [mark |-> "--> Error Line: ", line |-> l]
EmptyText == [mark |-> "empty", line |-> Prose]
JoinLines(seq) ==
    IF seq = <<>> THEN <<EmptyText>> ELSE [i \in 1..Len(seq) |-> TextLine(seq[i])]

\* the annotated listing built by the exception handler for line idx
AnnotatedLines(calls, idx) ==
    JoinLines(PySliceTo(calls, idx - 1))
    \o <<ErrorLine(calls[idx + 1])>>
    \o JoinLines(PySliceFrom(calls, idx + 1))

\* code_history[-1][-1] = trace_msg, when code_history is not empty
WithTrace(history, trace) ==
    IF Len(history) # 0 THEN [history EXCEPT ![Len(history)][3] = trace] ELSE history

\* history[-1][0] = mark, when history is not empty
WithMark(history, mark) ==
    IF Len(history) # 0 THEN [history EXCEPT ![Len(history)][1] = mark] ELSE history

\* execute_actions is entered with a batch and a value for found_code
StartBatch ==
    /\ pc \in {"idle", "done"}
    /\ batches < MaxBatches
    /\ lines_left > 0
    /\ \E n \in 1..Min(MaxLines, lines_left) :
         \E calls \in [1..n -> Alphabet] :
           /\ api_calls' = calls
           /\ lines_left' = lines_left - n
           /\ evalCount' = [i \in 1..n |-> 0]
           /\ api_history' = Append(api_history,
                                    <<"api_call_error", slide.slide_idx, calls>>)
    /\ \E fc \in BOOLEAN : found_code' = fc
    /\ \E d \in Documents : doc' = d
    /\ pc' = "running"
    /\ line_idx' = 0
    /\ func' = "<unbound>"
    /\ result' = NoResult
    /\ slide0' = slide
    /\ fail_idx' = -1
    /\ last' = NoLast
    /\ batches' = batches + 1
    /\ UNCHANGED <<slide, real, command_history, code_history, drain_log, sessions, dedup, deleted_ids>>

Running == pc = "running" /\ line_idx < Len(api_calls)
CurLine == api_calls[line_idx + 1]
NoCodeFound == line_idx = Len(api_calls) - 1 /\ ~found_code

\* Handler with the return of line 202 lost: the failure is recorded and the
\* loop goes on at the same line.
Handler_NoReturn(history, fn, exc, msg) ==
    /\ pc' = "running"
    /\ fail_idx' = line_idx
    /\ result' = [kind |-> "pair", api_lines |-> <<>>,
                  trace |-> Trace(exc, msg), cause |-> Trace(exc, msg)]
    /\ code_history' = WithTrace(history, Trace(exc, msg))

\* The except clause (lines 187-202) for an exception raised at the current
\* line, entered with code_history = history and the local func = fn.
\* Formatting the log message reads func: when no line of this call has
\* assigned it, that read raises UnboundLocalError inside the handler and
\* the call ends with that exception.
Handler(history, fn, exc, msg) ==
    /\ pc' = "done"
    /\ fail_idx' = line_idx
    /\ IF fn = "<unbound>"
       THEN /\ result' = [kind |-> "raised", api_lines |-> <<>>,
                          trace |-> Trace("UnboundLocalError", "func"),
                          cause |-> Trace(exc, msg)]
            /\ code_history' = history
       ELSE /\ result' = [kind |-> "pair",
                          api_lines |-> AnnotatedLines(api_calls, line_idx),
                          trace |-> Trace(exc, msg), cause |-> Trace(exc, msg)]
            /\ code_history' = WithTrace(history, Trace(exc, msg))

StepNoCode ==
    /\ Running
    /\ NoCodeFound
    /\ Handler(code_history, func, "SlideEditError", "no code block found")
    /\ UNCHANGED <<api_calls, line_idx, found_code, func, slide, real, api_history,
                   command_history, lines_left, batches, evalCount, slide0, last,
                   drain_log, doc, sessions, dedup, deleted_ids>>

StepDef ==
    /\ Running
    /\ ~NoCodeFound
    /\ StartsWithDef(CurLine)
    /\ Handler(code_history, func, "SlideEditError", "function definition not allowed")
    /\ UNCHANGED <<api_calls, line_idx, found_code, func, slide, real, api_history,
                   command_history, lines_left, batches, evalCount, slide0, last,
                   drain_log, doc, sessions, dedup, deleted_ids>>

StepComment ==
    /\ Running
    /\ ~NoCodeFound
    /\ ~StartsWithDef(CurLine)
    /\ StartsWithHash(CurLine)
    /\ command_history' = Append(WithMark(command_history, "comment_correct"),
                                 <<"comment_error", CurLine, NoTrace>>)
    /\ line_idx' = line_idx + 1
    /\ UNCHANGED <<pc, api_calls, found_code, func, result, slide, real, api_history,
                   code_history, lines_left, batches, evalCount, slide0, fail_idx,
                   last, drain_log, doc, sessions, dedup, deleted_ids>>

StepSkip ==
    /\ Running
    /\ ~NoCodeFound
    /\ ~StartsWithDef(CurLine)
    /\ ~StartsWithHash(CurLine)
    /\ ~FunctionRegexMatch(CurLine)
    /\ line_idx' = line_idx + 1
    /\ UNCHANGED <<pc, api_calls, found_code, func, result, slide, real, api_history,
                   command_history, code_history, lines_left, batches, evalCount,
                   slide0, fail_idx, last, drain_log, doc, sessions, dedup, deleted_ids>>

IsCandidate ==
    /\ Running
    /\ ~NoCodeFound
    /\ ~StartsWithDef(CurLine)
    /\ ~StartsWithHash(CurLine)
    /\ FunctionRegexMatch(CurLine)

StepUnknownFunc ==
    /\ IsCandidate
    /\ FuncName(CurLine) \notin RegisteredFunctions
    /\ found_code' = TRUE
    /\ func' = FuncName(CurLine)
    /\ Handler(code_history, FuncName(CurLine), "SlideEditError", "function is not defined")
    /\ UNCHANGED <<api_calls, line_idx, slide, real, api_history, command_history,
                   lines_left, batches, evalCount, slide0, last, drain_log, doc, sessions, dedup, deleted_ids>>

\* the real shape r after the closure an operation has just appended to one
\* of the queues of shape a (b is the shape before the operation) is called
EagerShape(b, a, r) ==
    LET grown == {t \in ClosureTypes : Len(a.closures[t]) > Len(b.closures[t])}
    IN IF grown = {} THEN r
       ELSE LET t == CHOOSE x \in grown : TRUE
            IN ApplyClosure(a.closures[t][Len(a.closures[t])], r).real

EagerReal(before, after, rl) ==
    [id \in DOMAIN rl |->
        LET pb == FirstPos({i \in 1..Len(before) : before[i].shape_idx = id})
            pa == FirstPos({i \in 1..Len(after) : after[i].shape_idx = id})
        IN IF pb = 0 \/ pa = 0 THEN rl[id] ELSE EagerShape(before[pb], after[pa], rl[id])]

\* StepEval with operations that call their closure when they enqueue it
StepEval_Eager ==
    /\ IsCandidate
    /\ FuncName(CurLine) \in RegisteredFunctions
    /\ found_code' = TRUE
    /\ func' = FuncName(CurLine)
    /\ evalCount' = [evalCount EXCEPT ![line_idx + 1] = @ + 1]
    /\ LET res == EvalLine(slide, CurLine)
           entered == Append(code_history, <<"code_run_error", CurLine, NoTrace>>)
       IN /\ slide' = res.slide
          /\ real' = EagerReal(slide.shapes, res.slide.shapes, real)
          /\ last' = [line |-> CurLine, exc |-> res.exc, target |-> res.target,
                      corrected |-> res.corrected, before |-> slide.shapes,
                      after |-> res.slide.shapes]
          /\ IF res.exc = "none"
             THEN /\ code_history' = WithMark(entered, "code_run_correct")
                  /\ line_idx' = line_idx + 1
                  /\ UNCHANGED <<pc, result, fail_idx>>
             ELSE /\ Handler(entered, FuncName(CurLine), res.exc, res.msg)
                  /\ UNCHANGED line_idx
    /\ UNCHANGED <<api_calls, api_history, command_history, lines_left,
                   batches, slide0, drain_log, doc, sessions, dedup>>
    /\ deleted_ids' = WithRemoved(deleted_ids, slide.shapes,
                                   EvalLine(slide, CurLine).slide.shapes)

\* StepEval with line 180 moved after the eval of line 185: an entry is
\* recorded for a line only once its evaluation has returned
StepEval_RecordAfterEval ==
    /\ IsCandidate
    /\ FuncName(CurLine) \in RegisteredFunctions
    /\ found_code' = TRUE
    /\ func' = FuncName(CurLine)
    /\ evalCount' = [evalCount EXCEPT ![line_idx + 1] = @ + 1]
    /\ LET res == EvalLine(slide, CurLine)
       IN /\ slide' = res.slide
          /\ last' = [line |-> CurLine, exc |-> res.exc, target |-> res.target,
                      corrected |-> res.corrected, before |-> slide.shapes,
                      after |-> res.slide.shapes]
          /\ IF res.exc = "none"
             THEN /\ code_history' = Append(code_history,
                                            <<"code_run_correct", CurLine, NoTrace>>)
                  /\ line_idx' = line_idx + 1
                  /\ UNCHANGED <<pc, result, fail_idx>>
             ELSE /\ Handler(code_history, FuncName(CurLine), res.exc, res.msg)
                  /\ UNCHANGED line_idx
    /\ UNCHANGED <<api_calls, real, api_history, command_history, lines_left,
                   batches, slide0, drain_log, doc, sessions, dedup>>
    /\ deleted_ids' = WithRemoved(deleted_ids, slide.shapes,
                                   EvalLine(slide, CurLine).slide.shapes)

StepEval ==
    /\ IsCandidate
    /\ FuncName(CurLine) \in RegisteredFunctions
    /\ found_code' = TRUE
    /\ func' = FuncName(CurLine)
    /\ evalCount' = [evalCount EXCEPT ![line_idx + 1] = @ + 1]
    /\ LET res == EvalLine(slide, CurLine)
           entered == Append(code_history, <<"code_run_error", CurLine, NoTrace>>)
       IN /\ slide' = res.slide
          /\ last' = [line |-> CurLine, exc |-> res.exc, target |-> res.target,
                      corrected |-> res.corrected, before |-> slide.shapes,
                      after |-> res.slide.shapes]
          /\ IF res.exc = "none"
             THEN /\ code_history' = WithMark(entered, "code_run_correct")
                  /\ line_idx' = line_idx + 1
                  /\ UNCHANGED <<pc, result, fail_idx>>
             ELSE /\ Handler(entered, FuncName(CurLine), res.exc, res.msg)
                  /\ UNCHANGED line_idx
    /\ UNCHANGED <<api_calls, real, api_history, command_history, lines_left,
                   batches, slide0, drain_log, doc, sessions, dedup>>
    /\ deleted_ids' = WithRemoved(deleted_ids, slide.shapes,
                                   EvalLine(slide, CurLine).slide.shapes)

\* Finish without lines 203-205: None is returned with the marks left
Finish_Unmarked ==
    /\ pc = "running"
    /\ line_idx = Len(api_calls)
    /\ result' = [kind |-> "None", api_lines |-> <<>>, trace |-> NoTrace,
                  cause |-> NoTrace]
    /\ pc' = "done"
    /\ UNCHANGED <<api_calls, line_idx, found_code, func, slide, real, api_history,
                   command_history, code_history, lines_left, batches, evalCount,
                   slide0, fail_idx, last, drain_log, doc, sessions, dedup, deleted_ids>>

\* the loop ran to the end of the batch: lines 203-205
Finish ==
    /\ pc = "running"
    /\ line_idx = Len(api_calls)
    /\ command_history' = WithMark(command_history, "comment_correct")
    /\ api_history' = WithMark(api_history, "api_call_correct")
    /\ result' = [kind |-> "None", api_lines |-> <<>>, trace |-> NoTrace,
                  cause |-> NoTrace]
    /\ pc' = "done"
    /\ UNCHANGED <<api_calls, line_idx, found_code, func, slide, real, code_history,
                   lines_left, batches, evalCount, slide0, fail_idx, last, drain_log, doc, sessions, dedup, deleted_ids>>

\* the save boundary drains the closure queues of the slide's shapes
Save ==
    /\ pc = "done"
    /\ LET o == DrainSlide(slide.shapes, 1, real)
       IN /\ real' = o.real
          /\ drain_log' = o.log
    /\ pc' = "saved"
    /\ UNCHANGED <<api_calls, line_idx, found_code, func, result, slide, api_history,
                   command_history, code_history, lines_left, batches, evalCount,
                   slide0, fail_idx, last, doc, sessions, dedup, deleted_ids>>

Next ==
    \/ StartBatch
    \/ StepNoCode
    \/ StepDef
    \/ StepComment
    \/ StepSkip
    \/ StepUnknownFunc
    \/ StepEval
    \/ Finish
    \/ Save

Spec == Init /\ [][Next]_vars

----------------------------------------------------------------------------
(* Concurrent sessions: two CodeExecutor objects, each with its own slide  *)
(* and its own batch, stepped line by line in any order.  An executor is   *)
(* kept as a record of the fields and locals of its execute_actions call.  *)

\* CodeExecutor(retry_times) with empty histories, entering execute_actions
\* with a batch, a slide and a value for found_code
Executor(calls, s, fc) ==
    [pc |-> "running", api_calls |-> calls, line_idx |-> 0, found_code |-> fc,
     func |-> "<unbound>", result |-> NoResult, slide |-> s,
     api_history |-> <<<<"api_call_error", s.slide_idx, calls>>>>,
     command_history |-> <<>>, code_history |-> <<>>]

\* the except clause with lines 197-202 under the test of line 195: with an
\* empty code_history nothing is returned and the loop goes on
ExecutorHandler_ReturnUnderTest(e, history, fn, exc, msg) ==
    IF fn = "<unbound>"
    THEN [e EXCEPT !.pc = "done",
                   !.result = [kind |-> "raised", api_lines |-> <<>>,
                               trace |-> Trace("UnboundLocalError", "func"),
                               cause |-> Trace(exc, msg)],
                   !.code_history = history]
    ELSE IF history = <<>>
    THEN [e EXCEPT !.line_idx = @ + 1]
    ELSE [e EXCEPT !.pc = "done",
                   !.result = [kind |-> "pair",
                               api_lines |-> AnnotatedLines(e.api_calls, e.line_idx),
                               trace |-> Trace(exc, msg), cause |-> Trace(exc, msg)],
                   !.code_history = WithTrace(history, Trace(exc, msg))]

\* the except clause for an exception raised at the current line of e
ExecutorHandler(e, history, fn, exc, msg) ==
    IF fn = "<unbound>"
    THEN [e EXCEPT !.pc = "done",
                   !.result = [kind |-> "raised", api_lines |-> <<>>,
                               trace |-> Trace("UnboundLocalError", "func"),
                               cause |-> Trace(exc, msg)],
                   !.code_history = history]
    ELSE [e EXCEPT !.pc = "done",
                   !.result = [kind |-> "pair",
                               api_lines |-> AnnotatedLines(e.api_calls, e.line_idx),
                               trace |-> Trace(exc, msg), cause |-> Trace(exc, msg)],
                   !.code_history = WithTrace(history, Trace(exc, msg))]

\* one pass of the loop body of execute_actions at line e.line_idx, or
\* lines 203-205 when the loop has run to the end of the batch
ExecutorStep(e) ==
    IF e.line_idx = Len(e.api_calls)
    THEN [e EXCEPT !.pc = "done",
                   !.command_history = WithMark(@, "comment_correct"),
                   !.api_history = WithMark(@, "api_call_correct"),
                   !.result = [kind |-> "None", api_lines |-> <<>>,
                               trace |-> NoTrace, cause |-> NoTrace]]
    ELSE
      LET line == e.api_calls[e.line_idx + 1] IN
      IF e.line_idx = Len(e.api_calls) - 1 /\ ~e.found_code
      THEN ExecutorHandler(e, e.code_history, e.func, "SlideEditError",
                           "no code block found")
      ELSE IF StartsWithDef(line)
      THEN ExecutorHandler(e, e.code_history, e.func, "SlideEditError",
                           "function definition not allowed")
      ELSE IF StartsWithHash(line)
      THEN [e EXCEPT !.command_history =
                         Append(WithMark(@, "comment_correct"),
                                <<"comment_error", line, NoTrace>>),
                     !.line_idx = @ + 1]
      ELSE IF ~FunctionRegexMatch(line)
      THEN [e EXCEPT !.line_idx = @ + 1]
      ELSE IF FuncName(line) \notin RegisteredFunctions
      THEN ExecutorHandler([e EXCEPT !.found_code = TRUE, !.func = FuncName(line)],
                           e.code_history, FuncName(line), "SlideEditError",
                           "function is not defined")
      ELSE
        LET res == EvalLine(e.slide, line)
            entered == Append(e.code_history, <<"code_run_error", line, NoTrace>>)
            called == [e EXCEPT !.found_code = TRUE, !.func = FuncName(line),
                                !.slide = res.slide]
        IN IF res.exc = "none"
           THEN [called EXCEPT !.code_history = WithMark(entered, "code_run_correct"),
                               !.line_idx = @ + 1]
           ELSE ExecutorHandler(called, entered, FuncName(line), res.exc, res.msg)

\* the call run from e to its end with no other session in between
RECURSIVE RunBatch(_)
RunBatch(e) == IF e.pc = "done" THEN e ELSE RunBatch(ExecutorStep(e))

ConcurrentLines ==
    {Comment,
     Line("text", TRUE, "del_paragraph", 0, 0, "", "literal"),
     Line("text", TRUE, "replace_paragraph", 0, 1, "X", "literal"),
     Line("text", TRUE, "clone_paragraph", 0, 0, "", "literal")}

ConcurrentBatches ==
    UNION {[1..n -> ConcurrentLines] : n \in 1..MaxConcurrentLines}

SessionIds == {1, 2}

\* a step of session i with the histories kept in lists that all executors
\* share: what session i recorded is in every executor's code_history
SessionRun_SharedHistory(i) ==
    /\ sessions.cur[i].pc = "running"
    /\ LET stepped == ExecutorStep(sessions.cur[i])
       IN sessions' = [sessions EXCEPT !.cur =
                         [j \in SessionIds |->
                            IF j = i THEN stepped
                            ELSE [sessions.cur[j] EXCEPT
                                    !.code_history = stepped.code_history]]]
    /\ UNCHANGED <<pc, api_calls, line_idx, found_code, func, result, slide, real,
                   api_history, command_history, code_history, lines_left, batches,
                   evalCount, slide0, fail_idx, last, drain_log, doc, dedup, deleted_ids>>

\* session i runs one step of its execute_actions call
SessionRun(i) ==
    /\ sessions.cur[i].pc = "running"
    /\ sessions' = [sessions EXCEPT !.cur[i] = ExecutorStep(@)]
    /\ UNCHANGED <<pc, api_calls, line_idx, found_code, func, result, slide, real,
                   api_history, command_history, code_history, lines_left, batches,
                   evalCount, slide0, fail_idx, last, drain_log, doc, dedup, deleted_ids>>

\* two executors, each constructed for its own slide and entered with its
\* own batch; the variables of the single-session engine stand still
InitSessions ==
    /\ \E b \in [SessionIds -> ConcurrentBatches], fc \in [SessionIds -> BOOLEAN] :
          LET start == [i \in SessionIds |->
                          Executor(b[i], SlideOf(CHOOSE l \in Layouts : l[2].idx = -1),
                                   fc[i])]
          IN sessions = [cur |-> start, start |-> start]
    /\ pc = "idle"
    /\ api_calls = <<>>
    /\ line_idx = 0
    /\ found_code = FALSE
    /\ func = "<unbound>"
    /\ result = NoResult
    /\ slide = SlideOf(CHOOSE l \in Layouts : l[2].idx = -1)
    /\ slide0 = slide
    /\ real = RealOf(CHOOSE l \in Layouts : l[2].idx = -1)
    /\ api_history = <<>>
    /\ command_history = <<>>
    /\ code_history = <<>>
    /\ lines_left = 0
    /\ batches = 0
    /\ evalCount = <<>>
    /\ fail_idx = -1
    /\ last = NoLast
    /\ drain_log = <<>>
    /\ doc = "Document"
    /\ dedup = <<>>
    /\ deleted_ids = NoneDeleted

NextSessions == \E i \in SessionIds : SessionRun(i)

SpecSessions == InitSessions /\ [][NextSessions]_vars

----------------------------------------------------------------------------
(* prs_dedup (model_utils.py): slides whose text embedding is close to the  *)
(* embedding of the slide after them are taken out of the presentation.    *)
(* An embedding is a vector of integers; the comparison of the cosine      *)
(* similarity with the threshold is made exactly, on squares.              *)

\* the default threshold 0.8 as a fraction
ThresholdNum == 4
ThresholdDen == 5

Embeddings == {<<1, 0>>, <<0, 1>>, <<1, 1>>, <<2, 1>>}

Dot(a, b) == a[1] * b[1] + a[2] * b[2]

\* torch.cosine_similarity(a, b, -1) > threshold, for a threshold >= 0 and
\* vectors that are not zero
CosineAboveThreshold(a, b) ==
    /\ Dot(a, b) > 0
    /\ ThresholdDen * ThresholdDen * Dot(a, b) * Dot(a, b)
         > ThresholdNum * ThresholdNum * Dot(a, a) * Dot(b, b)

\* a slide: where it stood in the presentation given, and the embedding
\* the model gives for its text
DedupSlide(id, emb) == [id |-> id, emb |-> emb]

\* the while loop of prs_dedup from slide_idx (0-based) on: the list
\* duplicates it builds, as 0-based positions
RECURSIVE DuplicatesFrom(_, _, _)
DuplicatesFrom(text_embeddings, slide_idx, pre_embedding) ==
    IF slide_idx >= Len(text_embeddings) THEN <<>>
    ELSE LET cur_embedding == text_embeddings[slide_idx + 1]
             rest == DuplicatesFrom(text_embeddings, slide_idx + 1, cur_embedding)
         IN IF CosineAboveThreshold(pre_embedding, cur_embedding)
            THEN <<slide_idx - 1>> \o rest
            ELSE rest

Reversed(seq) == [i \in 1..Len(seq) |-> seq[Len(seq) + 1 - i]]

\* [slides.pop(i) for i in order]: the slides left and the list popped
RECURSIVE PopEach(_, _)
PopEach(slides, order) ==
    IF order = <<>> THEN [slides |-> slides, popped |-> <<>>]
    ELSE LET rest == PopEach(RemoveAt(slides, Head(order) + 1), Tail(order))
         IN [slides |-> rest.slides,
             popped |-> <<slides[Head(order) + 1]>> \o rest.popped]

\* prs_dedup popping the positions in the order they were found; a pop past
\* the end of the list raises IndexError
prs_dedup_PopForward(slides) ==
    LET text_embeddings == [i \in 1..Len(slides) |-> slides[i].emb]
        duplicates == DuplicatesFrom(text_embeddings, 1, text_embeddings[1])
    IN IF \E k \in 1..Len(duplicates) : duplicates[k] + k > Len(slides)
       THEN [slides |-> slides, popped |-> <<>>]
       ELSE PopEach(slides, [k \in 1..Len(duplicates) |-> duplicates[k]])

\* prs_dedup(presentation, model, threshold) on a presentation with these
\* slides: the slides it leaves and the list it returns
prs_dedup(slides) ==
    LET text_embeddings == [i \in 1..Len(slides) |-> slides[i].emb]
        duplicates == DuplicatesFrom(text_embeddings, 1, text_embeddings[1])
    IN PopEach(slides, Reversed(duplicates))

Presentations ==
    UNION {[1..n -> Embeddings] : n \in 1..MaxSlides}

\* a presentation is loaded; the variables of the edit engine stand still
InitDedup ==
    /\ \E embs \in Presentations :
          LET given == [i \in 1..Len(embs) |-> DedupSlide(i, embs[i])]
          IN dedup = [stage |-> "loaded", given |-> given, slides |-> given,
                      returned |-> <<>>]
    /\ deleted_ids = NoneDeleted
    /\ pc = "idle"
    /\ api_calls = <<>>
    /\ line_idx = 0
    /\ found_code = FALSE
    /\ func = "<unbound>"
    /\ result = NoResult
    /\ slide = SlideOf(CHOOSE l \in Layouts : l[2].idx = -1)
    /\ slide0 = slide
    /\ real = RealOf(CHOOSE l \in Layouts : l[2].idx = -1)
    /\ api_history = <<>>
    /\ command_history = <<>>
    /\ code_history = <<>>
    /\ lines_left = 0
    /\ batches = 0
    /\ evalCount = <<>>
    /\ fail_idx = -1
    /\ last = NoLast
    /\ drain_log = <<>>
    /\ doc = "None"
    /\ sessions = <<>>

\* prs_dedup is called on the presentation
DedupCall ==
    /\ dedup.stage = "loaded"
    /\ LET o == prs_dedup(dedup.slides)
       IN dedup' = [dedup EXCEPT !.stage = "deduplicated", !.slides = o.slides,
                                 !.returned = o.popped]
    /\ UNCHANGED <<pc, api_calls, line_idx, found_code, func, result, slide, real,
                   api_history, command_history, code_history, lines_left, batches,
                   evalCount, slide0, fail_idx, last, drain_log, doc, sessions,
                   deleted_ids>>

NextDedup == DedupCall

SpecDedup == InitDedup /\ [][NextDedup]_vars

----------------------------------------------------------------------------
(* Properties of execute_actions *)

Ended == pc \in {"done", "saved"}

\* a line the loop takes to eval: a candidate with a registered name
IsOperationLine(l) ==
    /\ ~StartsWithDef(l)
    /\ ~StartsWithHash(l)
    /\ FunctionRegexMatch(l)
    /\ FuncName(l) \in RegisteredFunctions

\* a line the loop takes as a candidate operation
IsCandidateLine(l) ==
    ~StartsWithDef(l) /\ ~StartsWithHash(l) /\ FunctionRegexMatch(l)

\* the shadow slide after the operation lines among calls[1..n] ran in order
RECURSIVE ShadowAfter(_, _, _)
ShadowAfter(s, calls, n) ==
    IF n = 0 THEN s
    ELSE LET prev == ShadowAfter(s, calls, n - 1)
         IN IF IsOperationLine(calls[n]) THEN EvalLine(prev, calls[n]).slide ELSE prev

\* C1: when a batch fails at line k, every operation line before k was
\* evaluated exactly once and the shadow slide holds their effects (with
\* what the evaluation of line k itself did, when it was evaluated), no line
\* after k was evaluated, and no line is ever evaluated twice.
C1_FailFast ==
    /\ \A i \in 1..Len(evalCount) : evalCount[i] <= 1
    /\ (Ended /\ fail_idx # -1) =>
         /\ \A i \in 1..Len(api_calls) :
              /\ i <= fail_idx =>
                   evalCount[i] = IF IsOperationLine(api_calls[i]) THEN 1 ELSE 0
              /\ i > fail_idx + 1 => evalCount[i] = 0
         /\ slide = ShadowAfter(slide0, api_calls, fail_idx + evalCount[fail_idx + 1])

\* a three-line batch failed at its second line, an evaluated operation,
\* after its first line changed the slide and before another operation line
C1_Witness ==
    /\ pc = "done"
    /\ Len(api_calls) = 3
    /\ fail_idx = 1
    /\ evalCount = <<1, 1, 0>>
    /\ slide # slide0
    /\ IsOperationLine(api_calls[3])

\* C2: every call of execute_actions ends by returning None or a pair
\* (annotated text, trace); no exception leaves it.
C2_NoExceptionEscapes == Ended => result.kind \in {"None", "pair"}

\* the lines of a text that are not empty
RECURSIVE NonEmptyLines(_)
NonEmptyLines(text) ==
    IF text = <<>> THEN <<>>
    ELSE IF Head(text).mark = "empty" THEN NonEmptyLines(Tail(text))
    ELSE <<Head(text)>> \o NonEmptyLines(Tail(text))

\* the batch with line k (0-based) marked in place
MarkedInPlace(calls, k) ==
    [i \in 1..Len(calls) |-> IF i = k + 1 THEN ErrorLine(calls[i]) ELSE TextLine(calls[i])]

\* C3: the annotated text of a failure at line k is the batch with line k
\* replaced in place by its error line, every other line once and in order.
C3_AnnotatedInPlace ==
    (Ended /\ result.kind = "pair") =>
        NonEmptyLines(result.api_lines) = MarkedInPlace(api_calls, fail_idx)

\* C4: the "no code block found" failure happens only to a batch none of
\* whose lines is a candidate operation.
C4_NoCodeOnlyWithoutCandidate ==
    (Ended /\ result.cause.msg = "no code block found") =>
        \A i \in 1..Len(api_calls) : ~IsCandidateLine(api_calls[i])

\* C5: a batch of comment and prose lines only, run with found_code at its
\* default, returns the "no code block found" failure and leaves the slide
\* (shapes, paragraphs, closure queues) as it was.
C5_ProseBatchFailsCleanly ==
    (Ended /\ ~found_code
       /\ \A i \in 1..Len(api_calls) :
             ~StartsWithDef(api_calls[i]) /\ ~FunctionRegexMatch(api_calls[i]))
    => /\ result.kind = "pair"
       /\ result.trace.msg = "no code block found"
       /\ slide = slide0

----------------------------------------------------------------------------
(* Properties of paragraph addressing and of the editing operations, read  *)
(* off the last evaluated line: last.before and last.after are the shapes  *)
(* of the slide before and after the call.                                 *)

ParagraphOperations == {"del_paragraph", "replace_paragraph", "clone_paragraph"}

\* the last evaluated line called a paragraph operation on a shape of the slide
LastParagraphCall ==
    /\ last.exc # "unset"
    /\ last.line.argform = "literal"
    /\ last.line.func \in ParagraphOperations
    /\ \E i \in 1..Len(last.before) : last.before[i].shape_idx = last.line.div

LastShapeBefore ==
    last.before[CHOOSE i \in 1..Len(last.before) :
                    last.before[i].shape_idx = last.line.div]
LastShapeAfter ==
    last.after[CHOOSE i \in 1..Len(last.after) :
                   last.after[i].shape_idx = last.line.div]

AllIds(shape) == {shape.paragraphs[i].idx : i \in 1..Len(shape.paragraphs)}
MaxValidPos(shape) ==
    CHOOSE i \in ValidPositions(shape) :
        \A j \in ValidPositions(shape) : shape.paragraphs[j].idx <= shape.paragraphs[i].idx

\* the requested id matches no paragraph and is above the maximum valid id
OverRangeCase ==
    /\ LastParagraphCall
    /\ LastShapeBefore.is_textframe
    /\ ValidPositions(LastShapeBefore) # {}
    /\ last.line.pid \notin AllIds(LastShapeBefore)
    /\ last.line.pid > SetMax(ValidIds(LastShapeBefore))

UnderRangeCase ==
    /\ LastParagraphCall
    /\ \/ ValidPositions(LastShapeBefore) = {}
       \/ last.line.pid < 0
       \/ /\ last.line.pid \notin AllIds(LastShapeBefore)
          /\ last.line.pid < SetMax(ValidIds(LastShapeBefore))

\* C7: such a request raises SlideEditError, is not auto-corrected, and
\* leaves the paragraphs and closure queues of the slide as they were.
C7_UnderRangeRaises ==
    UnderRangeCase =>
      /\ last.exc = "SlideEditError"
      /\ ~last.corrected
      /\ last.after = last.before

\* a request for an id deleted earlier, below the maximum, was refused
C7_Witness ==
    /\ UnderRangeCase
    /\ last.line.pid >= 0
    /\ ValidPositions(LastShapeBefore) # {}
    /\ LastShapeBefore.closures["DELETE"] # <<>>
    /\ last.exc = "SlideEditError"

\* C8: a successful clone_paragraph appends one paragraph whose idx is the
\* maximum valid idx before the clone plus one and whose real_idx is above
\* the real_idx of every paragraph already in the shape, and keeps every
\* paragraph that was there.
C8_CloneAppendsAtPhysicalEnd ==
    (LastParagraphCall /\ last.line.func = "clone_paragraph" /\ last.exc = "none") =>
      LET b == LastShapeBefore.paragraphs
          a == LastShapeAfter.paragraphs
      IN /\ Len(a) = Len(b) + 1
         /\ SubSeq(a, 1, Len(b)) = b
         /\ a[Len(a)].idx = SetMax(ValidIds(LastShapeBefore)) + 1
         /\ \A i \in 1..Len(b) : a[Len(a)].real_idx > b[i].real_idx

\* C9: at the drain, every REPLACE and every CLONE closure acts on the real
\* paragraph that stands for the shadow paragraph its command was resolved to.
C9_ClosuresHitCounterpart ==
    pc = "saved" =>
      \A i \in 1..Len(drain_log) :
          drain_log[i].closure.fn \in {"replace_para", "clone_para"} =>
              drain_log[i].hit = drain_log[i].closure.uid

\* the closures queued on the shapes of the slide
RECURSIVE TotalQueued(_)
TotalQueued(shapes) ==
    IF shapes = <<>> THEN 0
    ELSE Len(DrainOrder(Head(shapes))) + TotalQueued(Tail(shapes))

QueuedCount(shape, c) ==
    Cardinality({<<t, j>> \in ClosureTypes \X (1..Len(DrainOrder(shape))) :
                    j <= Len(shape.closures[t]) /\ shape.closures[t][j] = c})

AppliedCount(shape_idx, c) ==
    Cardinality({i \in 1..Len(drain_log) :
                    drain_log[i].shape_idx = shape_idx /\ drain_log[i].closure = c})

\* the drain applied each closure as often as it was enqueued, and nothing else
DrainedExactlyOnce ==
    /\ Len(drain_log) = TotalQueued(slide.shapes)
    /\ \A k \in 1..Len(slide.shapes) :
         \A j \in 1..Len(DrainOrder(slide.shapes[k])) :
            LET c == DrainOrder(slide.shapes[k])[j]
            IN AppliedCount(slide.shapes[k].shape_idx, c) = QueuedCount(slide.shapes[k], c)

----------------------------------------------------------------------------
(* Properties of failing lines, the evaluator and the histories *)

ReadPos(shape, p) ==
    IF p \in AllIds(shape)
    THEN CHOOSE i \in 1..Len(shape.paragraphs) : shape.paragraphs[i].idx = p
    ELSE MaxValidPos(shape)

LastReplaceSucceeded ==
    /\ LastParagraphCall
    /\ last.line.func = "replace_paragraph"
    /\ last.exc = "none"

\* C12: after a successful replace_paragraph(div, p, text) the paragraph p
\* of shape div reads text in the shadow slide, before the drain and after
\* it, and every other paragraph and shape of the slide is as it was.
C12_ReplaceVisibleInShadow ==
    LastReplaceSucceeded =>
      LET b == LastShapeBefore.paragraphs
          a == LastShapeAfter.paragraphs
          k == ReadPos(LastShapeBefore, last.line.pid)
      IN /\ slide.shapes = last.after
         /\ Len(a) = Len(b)
         /\ a[ReadPos(LastShapeAfter, last.line.pid)].text = last.line.arg
         /\ \A i \in 1..Len(b) : i # k => a[i] = b[i]
         /\ Len(last.after) = Len(last.before)
         /\ \A i \in 1..Len(last.before) :
               last.before[i].shape_idx # last.line.div => last.after[i] = last.before[i]

\* a replace gave a paragraph a text it did not have, another paragraph
\* of the shape kept a different text, and the queues have been drained
C12_Witness ==
    /\ LastReplaceSucceeded
    /\ pc = "saved"
    /\ drain_log # <<>>
    /\ last.line.pid \in AllIds(LastShapeBefore)
    /\ LET k == ReadPos(LastShapeBefore, last.line.pid)
       IN /\ LastShapeBefore.paragraphs[k].text # last.line.arg
          /\ \E i \in 1..Len(LastShapeAfter.paragraphs) :
                i # k /\ LastShapeAfter.paragraphs[i].text # last.line.arg

\* C13: a batch with a line that starts with "def", at any position, ends
\* as a failure and none of its lines has been evaluated.
C13_DefinitionRejectedUnexecuted ==
    (Ended /\ \E i \in 1..Len(api_calls) : StartsWithDef(api_calls[i]))
    => /\ result.kind # "None"
       /\ \A i \in 1..Len(api_calls) : evalCount[i] = 0

\* the batch failed at a candidate operation line whose name is not registered
FailedAtUnknownCall ==
    /\ Ended
    /\ fail_idx # -1
    /\ IsCandidateLine(api_calls[fail_idx + 1])
    /\ FuncName(api_calls[fail_idx + 1]) \notin RegisteredFunctions

\* C14: a batch that fails at a candidate operation line with an
\* unregistered name returns the SlideEditError naming the function; the
\* line was not evaluated and the slide is as the lines before it left it.
C14_UnknownOperationRejected ==
    FailedAtUnknownCall =>
      /\ result.kind = "pair"
      /\ result.trace = Trace("SlideEditError", "function is not defined")
      /\ evalCount[fail_idx + 1] = 0
      /\ slide = ShadowAfter(slide0, api_calls, fail_idx)

RECURSIVE SumTo(_, _)
SumTo(counts, n) == IF n = 0 THEN 0 ELSE counts[n] + SumTo(counts, n - 1)
EvaluatedLines == SumTo(evalCount, Len(evalCount))

\* the code_history entries the batch added: one for each evaluated line
BatchCodeEntries ==
    SubSeq(code_history, Len(code_history) - EvaluatedLines + 1, Len(code_history))

\* C16: a call returns None exactly when no line of its batch failed; then
\* the batch's api_history entry and the last comment entry are marked
\* correct and every code_history entry of the batch is code_run_correct;
\* when the call ends as a failure the batch's api_history entry is still
\* api_call_error.
C16_NoneIffNoFailure ==
    Ended =>
      /\ (result.kind = "None") <=> (fail_idx = -1)
      /\ result.kind = "None" =>
            /\ api_history[Len(api_history)][1] = "api_call_correct"
            /\ command_history # <<>> =>
                  command_history[Len(command_history)][1] = "comment_correct"
            /\ \A i \in 1..Len(BatchCodeEntries) :
                  BatchCodeEntries[i][1] = "code_run_correct"
      /\ result.kind # "None" =>
            api_history[Len(api_history)][1] = "api_call_error"

\* a batch with a comment and an evaluated operation returned None after an
\* earlier batch of the session had failed
C16_Witness ==
    /\ pc = "done"
    /\ result.kind = "None"
    /\ Len(api_history) = 2
    /\ api_history[1][1] = "api_call_error"
    /\ EvaluatedLines >= 1
    /\ \E i \in 1..Len(api_calls) : StartsWithHash(api_calls[i])

\* the ClosureType of each registered operation
OperationClosureType(f) ==
    CASE f = "del_paragraph" -> "DELETE"
      [] f = "del_image" -> "DELETE"
      [] f = "replace_paragraph" -> "REPLACE"
      [] f = "replace_image" -> "REPLACE"
      [] f = "clone_paragraph" -> "CLONE"

LastOperationSucceeded ==
    /\ last.exc = "none"
    /\ last.line.argform = "literal"

\* the shape the last operation addressed is still in the slide and its
\* queue of the operation's type holds one more closure than before
LastEnqueuedOne ==
    LET pa == FirstPos({i \in 1..Len(last.after) :
                          last.after[i].shape_idx = last.line.div})
        pb == FirstPos({i \in 1..Len(last.before) :
                          last.before[i].shape_idx = last.line.div})
        t == OperationClosureType(last.line.func)
    IN /\ pa # 0
       /\ pb # 0
       /\ Len(last.after[pa].closures[t]) = Len(last.before[pb].closures[t]) + 1
       /\ SubSeq(last.after[pa].closures[t], 1, Len(last.before[pb].closures[t]))
             = last.before[pb].closures[t]

\* the closure a paragraph operation enqueued carries the real_idx its
\* target paragraph had when the operation ran
LastClosureBoundToTarget ==
    LET t == OperationClosureType(last.line.func)
        q == LastShapeAfter.closures[t]
        k == ReadPos(LastShapeBefore, last.line.pid)
    IN q[Len(q)].paragraph_id = LastShapeBefore.paragraphs[k].real_idx

RECURSIVE Sentinels(_)
Sentinels(paras) ==
    IF paras = <<>> THEN <<>>
    ELSE IF Head(paras).idx = -1 THEN <<Head(paras)>> \o Sentinels(Tail(paras))
    ELSE Sentinels(Tail(paras))

\* the ids a command can ask for, with one above every id the session can create
RequestedIds == (-1)..(MaxPid + MaxSessionLines + 1)

\* C18: for every requested id, -1 and over-range ids included,
\* validate_paragraph_operation on any shape of the slide fails or gives a
\* paragraph whose idx is not -1; no delete, replace or clone acts on a
\* paragraph with idx -1, and those paragraphs stay in the shape unchanged.
C18_SentinelNeverAddressed ==
    /\ \A i \in 1..Len(slide.shapes) : \A p \in RequestedIds :
          LET v == validate_paragraph_operation(slide.shapes[i], p)
          IN v.exc = "none" => slide.shapes[i].paragraphs[v.pos].idx # -1
    /\ (LastParagraphCall /\ last.exc = "none") =>
          /\ \E i \in 1..Len(LastShapeBefore.paragraphs) :
                /\ LastShapeBefore.paragraphs[i].uid = last.target
                /\ LastShapeBefore.paragraphs[i].idx # -1
          /\ Sentinels(LastShapeAfter.paragraphs) = Sentinels(LastShapeBefore.paragraphs)

\* a command asked for id -1 on a shape that holds a paragraph with idx -1
\* and was refused
C18_Witness ==
    /\ LastParagraphCall
    /\ last.line.pid = -1
    /\ -1 \in AllIds(LastShapeBefore)
    /\ ValidPositions(LastShapeBefore) # {}
    /\ last.exc = "SlideEditError"
    /\ last.after = last.before

\* the last evaluated line was replace_image on a Picture of the slide, with
\* an existing path of the rendered-table form for which no table can be
\* had: the document holds none, or the call was given no document
TableFallbackCase ==
    /\ last.exc # "unset"
    /\ last.line.argform = "literal"
    /\ last.line.func = "replace_image"
    /\ last.line.arg \in ExistingPaths
    /\ TableRegexMatch(last.line.arg)
    /\ \E i \in 1..Len(last.before) :
          last.before[i].shape_idx = last.line.div /\ last.before[i].is_picture
    /\ (doc = "None" \/ last.line.arg \notin DocTables)

\* C19: in that case replace_image does not fail; the shape gets the new
\* image path as in the plain swap, does not become a table, and its
\* closure queues are as they were.
C19_TableFallbackToPlainSwap ==
    TableFallbackCase =>
      /\ last.exc = "none"
      /\ LastShapeAfter.img_path = last.line.arg
      /\ LastShapeAfter.is_table = LastShapeBefore.is_table
      /\ LastShapeAfter.closures = LastShapeBefore.closures

\* a call without a document swapped in an image the document has a table for
C19_Witness ==
    /\ TableFallbackCase
    /\ doc = "None"
    /\ last.line.arg \in DocTables
    /\ last.exc = "none"
    /\ LastShapeBefore.img_path # last.line.arg

----------------------------------------------------------------------------
(* Properties of concurrent sessions *)

AllSessionsEnded == \A i \in SessionIds : sessions.cur[i].pc = "done"

CurrentExecutor ==
    [pc |-> pc, api_calls |-> api_calls, line_idx |-> line_idx,
     found_code |-> found_code, func |-> func, result |-> result, slide |-> slide,
     api_history |-> api_history, command_history |-> command_history,
     code_history |-> code_history]

\* a line that is blank or has none of the comment, definition and
\* operation-call shapes
IsIgnoredLine(l) ==
    ~StartsWithDef(l) /\ ~StartsWithHash(l) /\ ~FunctionRegexMatch(l)

\* the batch without those lines; the text left when all are removed is
\* the empty text, which splits into one blank line
RECURSIVE WithoutIgnored(_)
WithoutIgnored(calls) ==
    IF calls = <<>> THEN <<>>
    ELSE IF IsIgnoredLine(Head(calls)) THEN WithoutIgnored(Tail(calls))
    ELSE <<Head(calls)>> \o WithoutIgnored(Tail(calls))

StrippedBatch(calls) ==
    IF WithoutIgnored(calls) = <<>> THEN <<Prose>> ELSE WithoutIgnored(calls)

\* C23: a batch entered with some slide and found_code ends with the same
\* outcome (None or the same failure), the same slide and the same closure
\* queues as the batch without its ignored lines entered in the same way.
C23_IgnoredLinesChangeNothing ==
    (pc = "running" /\ line_idx = 0) =>
      LET whole == RunBatch(CurrentExecutor)
          stripped == RunBatch([CurrentExecutor EXCEPT
                                  !.api_calls = StrippedBatch(api_calls)])
      IN /\ whole.result.kind = stripped.result.kind
         /\ whole.result.cause = stripped.result.cause
         /\ whole.slide = stripped.slide

----------------------------------------------------------------------------
(* Properties of the drained tree and of the shape collection *)

Texts(paras) == [i \in 1..Len(paras) |-> paras[i].text]

\* the text shape of the shadow slide
ShadowTextShape ==
    slide.shapes[CHOOSE i \in 1..Len(slide.shapes) : slide.shapes[i].shape_idx = 0]

\* C22: after the queues of a shape have been drained in the order REPLACE,
\* CLONE, DELETE, MERGE, its real paragraph list has the length and the
\* sequence of texts of its shadow paragraph list.
C22_DrainMatchesShadow ==
    (pc = "saved" /\ element_index(slide, 0) # 0) =>
        Texts(real[0].paragraphs) = Texts(ShadowTextShape.paragraphs)

\* the last evaluated line, and where the shape it addresses stood in the
\* slide before the call (0 when the slide had no such shape)
LastLiteralCall == last.exc # "unset" /\ last.line.argform = "literal"
LastAddressedPos ==
    FirstPos({i \in 1..Len(last.before) : last.before[i].shape_idx = last.line.div})

\* C24: a del_image on a Picture succeeds and takes that shape, and only
\* that shape, out of the shape collection, the other shapes keeping their
\* identifiers; a del_image on a shape that is not a Picture fails with
\* SlideEditError and changes nothing; and every operation that addresses a
\* shape no longer in the collection fails with SlideEditError and changes
\* nothing.
C24_DeletedShapeStaysGone ==
    LastLiteralCall =>
      /\ (last.line.func = "del_image" /\ LastAddressedPos # 0) =>
            IF last.before[LastAddressedPos].is_picture
            THEN /\ last.exc = "none"
                 /\ last.after = RemoveAt(last.before, LastAddressedPos)
                 /\ \A i \in 1..Len(last.after) :
                       last.after[i].shape_idx # last.line.div
            ELSE /\ last.exc = "SlideEditError"
                 /\ last.after = last.before
      /\ LastAddressedPos = 0 =>
            /\ last.exc = "SlideEditError"
            /\ last.after = last.before

\* after del_image removed the Picture, a replace_image with an existing
\* image addressed it and was refused
C24_Witness ==
    /\ LastLiteralCall
    /\ LastAddressedPos = 0
    /\ last.line.func = "replace_image"
    /\ last.line.arg \in ExistingPaths
    /\ Len(last.before) = 1
    /\ last.exc = "SlideEditError"

\* the last evaluated line was a replace_image that returned by the plain
\* swap: on a Picture, with an existing path that is not a table path the
\* document can serve
PlainSwapCase ==
    /\ LastLiteralCall
    /\ last.line.func = "replace_image"
    /\ last.exc = "none"
    /\ ~(TableRegexMatch(last.line.arg) /\ doc # "None" /\ last.line.arg \in DocTables)

\* the two fit ratios of a box for an image compare as their cross products
WidthRatioIsSmaller(box, size) == box.width * size[2] <= box.height * size[1]
WidthRatioIsLarger(box, size) == box.width * size[2] >= box.height * size[1]

\* the box after is the image scaled by the width ratio of the box before
\* (the width is kept), resp. by its height ratio (the height is kept), to
\* whole EMU
ScaledToWidth(before, after, size) ==
    /\ after.width = before.width
    /\ after.height = (size[2] * before.width) \div size[1]
ScaledToHeight(before, after, size) ==
    /\ after.height = before.height
    /\ after.width = (size[1] * before.height) \div size[2]

\* the box after lies within the box before, at the same left
StaysWithin(before, after) ==
    /\ after.left = before.left
    /\ after.width <= before.width
    /\ after.height <= before.height
    /\ after.top >= before.top
    /\ after.top + after.height <= before.top + before.height

\* C25: a plain image replacement scales the new image uniformly by the
\* smaller of the two fit ratios of the shape's box; the resulting width and
\* height do not exceed those of the box before the call, the new box lies
\* within it, and left is unchanged.
C25_ScaledBySmallerRatio ==
    PlainSwapCase =>
      LET before == LastShapeBefore.bounds
          after == LastShapeAfter.bounds
          size == img_size(last.line.arg)
      IN /\ IF WidthRatioIsSmaller(before, size)
            THEN ScaledToWidth(before, after, size)
            ELSE ScaledToHeight(before, after, size)
         /\ StaysWithin(before, after)

\* C25 as stated: the scale is the larger of the two fit ratios, and the
\* result stays within the box at the same left
C25_ScaledByLargerRatio ==
    PlainSwapCase =>
      LET before == LastShapeBefore.bounds
          after == LastShapeAfter.bounds
          size == img_size(last.line.arg)
      IN /\ IF WidthRatioIsLarger(before, size)
            THEN ScaledToWidth(before, after, size)
            ELSE ScaledToHeight(before, after, size)
         /\ StaysWithin(before, after)

\* a plain swap whose two fit ratios differ shrank the box in one direction
\* and moved its top down
C25_Witness ==
    /\ PlainSwapCase
    /\ ~WidthRatioIsLarger(LastShapeBefore.bounds, img_size(last.line.arg))
    /\ LastShapeAfter.bounds.height < LastShapeBefore.bounds.height
    /\ LastShapeAfter.bounds.top > LastShapeBefore.bounds.top
    /\ LastShapeAfter.img_path = last.line.arg

----------------------------------------------------------------------------
(* Properties of the history logs *)

\* the executor about to run the current batch on the current slide, with
\* nothing yet in its command and code histories and only this batch's
\* entry in its api history
FreshExecutor == Executor(api_calls, slide, found_code)

\* C26: the result of a batch and the slide it leaves do not depend on what
\* the three history logs held when it began: entered with the logs of the
\* batches before it, the batch ends with the result and the slide it ends
\* with when entered with empty logs.
C26_HistoryDoesNotSteer ==
    (pc = "running" /\ line_idx = 0) =>
      /\ RunBatch(CurrentExecutor).result = RunBatch(FreshExecutor).result
      /\ RunBatch(CurrentExecutor).slide = RunBatch(FreshExecutor).slide

\* a batch that is going to fail after an operation line of its own took
\* effect begins with entries in all three logs
C26_Witness ==
    /\ pc = "running"
    /\ line_idx = 0
    /\ Len(api_history) = 2
    /\ command_history # <<>>
    /\ code_history # <<>>
    /\ RunBatch(CurrentExecutor).result.kind = "pair"
    /\ RunBatch(CurrentExecutor).slide # slide

\* the history grew by the one entry <<mark, payload, trace>> with a mark of
\* marks, or by none
GrewByOne(history, grown, marks, payload) ==
    /\ Len(grown) = Len(history) + 1
    /\ grown[Len(grown)][1] \in marks
    /\ grown[Len(grown)][2] = payload
SameLength(history, grown) == Len(grown) = Len(history)

C30_CorrectEntryHasNoTrace ==
    \A i \in 1..Len(code_history) :
        code_history[i][1] = "code_run_correct" => code_history[i][3] = NoTrace

----------------------------------------------------------------------------
(* Properties of the logical paragraph ids *)

\* C28: in every shape of the slide, at every point of a session, the
\* paragraphs with idx # -1 have pairwise distinct idx values (they are
\* distinct in every slide as loaded).
C28_ValidIdsDistinct ==
    \A k \in 1..Len(slide.shapes) :
        \A i, j \in ValidPositions(slide.shapes[k]) :
            i # j => slide.shapes[k].paragraphs[i].idx # slide.shapes[k].paragraphs[j].idx

\* a text shape on which a delete, a replace and a clone have succeeded
\* still holds two or more paragraphs with valid ids
C28_Witness ==
    /\ element_index(slide, 0) # 0
    /\ ShadowTextShape.closures["DELETE"] # <<>>
    /\ ShadowTextShape.closures["REPLACE"] # <<>>
    /\ ShadowTextShape.closures["CLONE"] # <<>>
    /\ Cardinality(ValidPositions(ShadowTextShape)) >= 2

\* C29: an idx that del_paragraph has removed from a shape is not the idx
\* of any paragraph the shape holds afterwards: no later clone_paragraph on
\* the shape gives it to its clone.
C29_DeletedIdNeverReassigned ==
    \A k \in 1..Len(slide.shapes) :
        \A i \in ValidPositions(slide.shapes[k]) :
            slide.shapes[k].paragraphs[i].idx
                \notin deleted_ids[slide.shapes[k].shape_idx]

----------------------------------------------------------------------------
(* Properties of prs_dedup *)

\* the slides of the presentation given that stand just before a slide
\* whose embedding is above the threshold in similarity to theirs
FollowedBySimilar ==
    {i \in 1..(Len(dedup.given) - 1) :
        CosineAboveThreshold(dedup.given[i].emb, dedup.given[i + 1].emb)}

\* the slides of a list at the positions of a set, in order
RECURSIVE SelectFrom(_, _, _)
SelectFrom(seq, keep, i) ==
    IF i > Len(seq) THEN <<>>
    ELSE IF i \in keep THEN <<seq[i]>> \o SelectFrom(seq, keep, i + 1)
    ELSE SelectFrom(seq, keep, i + 1)

\* C21: prs_dedup leaves in the presentation, in order, exactly the slides
\* that are not immediately followed by a slide more similar than the
\* threshold, and returns the slides it removed; a presentation of n >= 2
\* copies of one slide is left with exactly one slide.
C21_DedupRemovesFollowedSlides ==
    dedup.stage = "deduplicated" =>
      /\ dedup.slides =
            SelectFrom(dedup.given, (1..Len(dedup.given)) \ FollowedBySimilar, 1)
      /\ {dedup.returned[k] : k \in 1..Len(dedup.returned)}
            = {dedup.given[i] : i \in FollowedBySimilar}
      /\ Len(dedup.returned) = Cardinality(FollowedBySimilar)
      /\ (/\ Len(dedup.given) >= 2
          /\ \A i \in 1..Len(dedup.given) : dedup.given[i].emb = dedup.given[1].emb)
         => Len(dedup.slides) = 1

\* prs_dedup ran on a presentation in which two slides that do not stand
\* next to each other were removed and the slides between and after them kept
C21_Witness ==
    /\ dedup.stage = "deduplicated"
    /\ Len(dedup.given) = 4
    /\ FollowedBySimilar = {1, 3}
    /\ Len(dedup.slides) = 2

====
